---- MODULE Spec2Model ----
(***************************************************************************)
(* A model of baseMelUI.py: object wrappers over a host application's      *)
(* procedural widget commands.  The host (its widget table, the items and  *)
(* selection of a textScrollList, a control's size and visibility, its     *)
(* windows) is modelled as the store that the wrapper's commands read and  *)
(* write; the wrappers' own state (_items, _preSize, _INSTANCE_LIST) is    *)
(* modelled from the code.                                                 *)
(*                                                                         *)
(* Python lists are sequences; a Python index idx designates element       *)
(* idx+1 of the sequence.  Host list indices are 1-based, as in the code.  *)
(***************************************************************************)
EXTENDS Integers, Sequences, FiniteSets, TLC

VARIABLES
    isObj,        \* the list widget is a MelObjectScrollList (else MelTextScrollList)
    ams,          \* host flag allowMultiSelection of the list widget
    _items,       \* MelObjectScrollList._items, the shadow sequence
    hostItems,    \* the host's display sequence of the list widget
    hostSel,      \* the host's selected indices (1-based) of the list widget
    hostSize,     \* the host's <<width, height>> of the plain widget
    hostVis,      \* the host's visibility flag of the plain widget
    _preSize,     \* the plain widget's _preSize attribute: {} while it has none
    visSize,      \* the size the plain widget was last given while visible
    hostUI,       \* the host's UI elements, in creation order
    serial,       \* how many UI elements the host has created
    objs,         \* the wrapper objects instantiated, in instantiation order
    _INSTANCE_LIST, \* the _INSTANCE_LIST attribute of each class that has its own
    error,        \* the exception the last UI operation ended with
    chain,        \* the handler attribute of a widget, its ancestors and the window
    at,           \* the object of the chain whose processEvent is running: 0 when none
    calls,        \* the objects whose handler the dispatch in hand has invoked
    hostPanes,    \* the host's <<width, height>> of each pane of the pane layout
    lastOp        \* the operation that produced this state, and how it ended

listVars == <<isObj, ams, _items, hostItems, hostSel>>
widgetVars == <<hostSize, hostVis, _preSize, visSize>>
uiVars == <<hostUI, serial, objs, _INSTANCE_LIST, error>>
eventVars == <<chain, at, calls>>
paneVars == <<hostPanes>>
vars == <<isObj, ams, _items, hostItems, hostSel, hostSize, hostVis, _preSize, visSize,
          hostUI, serial, objs, _INSTANCE_LIST, error, chain, at, calls,
          hostPanes, lastOp>>

(***************************************************************************)
(* Bounds                                                                  *)
(***************************************************************************)
MaxLen == 3
MaxCount == 3
MaxDim == 3
MaxSerial == 2
MaxObjs == 2
MaxKids == 2
MaxWindowSerial == 5
MaxDepth == 3

(***************************************************************************)
(* The states of the parts of the model a specification leaves alone        *)
(***************************************************************************)
NoOp == [op |-> "init", arg |-> 0, raised |-> FALSE]

\* the list widget while no operation is applied to it
IdleList ==
    /\ isObj = FALSE
    /\ ams = FALSE
    /\ _items = <<>>
    /\ hostItems = <<>>
    /\ hostSel = {}

\* the plain widget while no operation is applied to it
IdleWidget ==
    /\ hostSize = <<1, 1>>
    /\ hostVis = TRUE
    /\ _preSize = {}
    /\ visSize = <<1, 1>>

\* no dispatch in hand: a window alone, without the handler
IdleEvents ==
    /\ chain = <<"absent">>
    /\ at = 0
    /\ calls = <<>>

\* the panes of MelPaneLayout.CONFIG, "vertical2"
NumPanes == 2

\* the pane layout while no operation is applied to it
IdlePanes == hostPanes = [i \in 1..NumPanes |-> <<1, 1>>]

\* the window every widget of the model is created under
WINDOW_NAME == <<"unnamed_window">>

NoParent == <<"None">>

\* no exception
NoError == [type |-> "None", cmd |-> "None", name |-> NoParent]

TheWindow == [name |-> WINDOW_NAME, type |-> "window", parent |-> NoParent, serial |-> 0]

\* no widget, no wrapper object: the state when the module has been loaded
\* and a window opened
IdleUI ==
    /\ hostUI = <<TheWindow>>
    /\ serial = 0
    /\ objs = <<>>
    /\ _INSTANCE_LIST = [c \in {"BaseMelWidget"} |-> <<>>]
    /\ error = NoError

(***************************************************************************)
(* Python list primitives                                                  *)
(***************************************************************************)
Min(a, b) == IF a <= b THEN a ELSE b
Max(a, b) == IF a >= b THEN a ELSE b

At(s, idx) == s[idx + 1]

\* list.pop(idx) for an in-range idx >= 0: the list that remains
PyPop(s, idx) == SubSeq(s, 1, idx) \o SubSeq(s, idx + 2, Len(s))

\* list.insert(idx, x): a negative idx counts from the end, and the
\* position is clamped to [0, len]
PyInsert(s, idx, x) ==
    LET pos == IF idx < 0 THEN Max(0, Len(s) + idx) ELSE Min(idx, Len(s))
    IN SubSeq(s, 1, pos) \o <<x>> \o SubSeq(s, pos + 1, Len(s))

\* value in list
PyIn(x, s) == \E i \in 1..Len(s) : s[i] = x

\* list.index(value), for a value in the list
PyIndex(s, x) == CHOOSE i \in 0..(Len(s) - 1) : /\ At(s, i) = x
                                                /\ \A j \in 0..(i - 1) : At(s, j) # x

\* list.sort() of a list of distinct integers, given as their set
RECURSIVE Sorted(_)
Sorted(S) ==
    IF S = {} THEN <<>>
    ELSE LET m == CHOOSE x \in S : \A y \in S : x <= y
         IN <<m>> \o Sorted(S \ {m})

\* reversed( s )
RECURSIVE Reversed(_)
Reversed(s) == IF s = <<>> THEN <<>> ELSE Append(Reversed(Tail(s)), Head(s))

\* every order in which the elements of S can be listed
RECURSIVE Orders(_)
Orders(S) ==
    IF S = {} THEN {<<>>}
    ELSE UNION { { <<x>> \o o : o \in Orders(S \ {x}) } : x \in S }

(***************************************************************************)
(* Items and their display strings.  A string is a sequence of characters. *)
(***************************************************************************)
Items == { <<"a">>, <<"n", ":", "a">>, <<"g", "|", "b">> }

DISPLAY_NAMESPACES == FALSE

\* str.split( sep )[ -1 ]: what follows the last sep of s, or s itself
RECURSIVE SplitLast(_, _)
SplitLast(s, sep) ==
    IF \E i \in 1..Len(s) : s[i] = sep
    THEN SplitLast(Tail(s), sep)
    ELSE s

itemAsStr(item) ==
    IF DISPLAY_NAMESPACES THEN item
    ELSE LET withoutNamespace == SplitLast(item, ":")
             withoutPaths == SplitLast(withoutNamespace, "|")
         IN withoutPaths

(***************************************************************************)
(* The wrapper classes: their bases and the WIDGET_CMD each declares.      *)
(* Commands are named by their __name__; "None" is Python's None.          *)
(***************************************************************************)
ClassBase ==
    [ BaseMelWidget |-> "None",
      MelLayout |-> "BaseMelWidget",
      MelForm |-> "MelLayout",
      MelLabel |-> "BaseMelWidget",
      MelButton |-> "MelLabel",
      MelTextField |-> "BaseMelWidget",
      MelObjectSelector |-> "MelForm",
      _MelBaseMenu |-> "BaseMelWidget",
      MelOptionMenu |-> "_MelBaseMenu",
      MelPopupMenu |-> "_MelBaseMenu",
      MelMenuItem |-> "BaseMelWidget",
      MelProgressWindow |-> "BaseMelWidget" ]

Classes == DOMAIN ClassBase

DeclaredCmd ==
    [ BaseMelWidget |-> "control",
      MelLayout |-> "layout",
      MelForm |-> "formLayout",
      MelLabel |-> "text",
      MelButton |-> "button",
      MelTextField |-> "textField",
      MelOptionMenu |-> "optionMenu",
      MelPopupMenu |-> "popupMenu",
      MelMenuItem |-> "menuItem",
      MelProgressWindow |-> "progressWindow" ]

\* the class and its bases, the class first
RECURSIVE Mro(_)
Mro(cls) == IF cls = "None" THEN <<>> ELSE <<cls>> \o Mro(ClassBase[cls])

\* isinstance( an instance of class c, cls )
IsInstance(c, cls) == \E i \in 1..Len(Mro(c)) : Mro(c)[i] = cls

\* cls.WIDGET_CMD: the declaration of the nearest class that has one
WIDGET_CMD(cls) ==
    LET mro == Mro(cls)
        k == CHOOSE i \in 1..Len(mro) :
                 /\ mro[i] \in DOMAIN DeclaredCmd
                 /\ \A j \in 1..(i - 1) : mro[j] \notin DOMAIN DeclaredCmd
    IN DeclaredCmd[mro[k]]

\* BaseMelWidget.GetSubclasses(): the subclasses registered with the tracker
GetSubclasses == Classes \ {"BaseMelWidget"}

\* the commands of the host's command module that the model names
CmdModule == { "control", "layout", "formLayout", "text", "button", "textField",
               "optionMenu", "popupMenu", "menuItem", "separator", "window",
               "progressWindow" }

\* a slip: the table of type names left empty
TYPE_NAMES_TO_CMDS_Empty == [ t \in {} |-> "None" ]

TYPE_NAMES_TO_CMDS == [ staticText |-> "text", field |-> "textField" ]

\* the type string the host reports for an element a command created: not
\* always the command's name
HostTypeOf(cmd) ==
    IF cmd = "text" THEN "staticText"
    ELSE IF cmd = "textField" THEN "field"
    ELSE cmd

\* TYPE_NAMES_TO_CMDS.get( uiTypeStr, getattr( cmd, uiTypeStr, None ) )
UiCmdOf(uiTypeStr) ==
    IF uiTypeStr \in DOMAIN TYPE_NAMES_TO_CMDS THEN TYPE_NAMES_TO_CMDS[uiTypeStr]
    ELSE IF uiTypeStr \in CmdModule THEN uiTypeStr
    ELSE "None"

(***************************************************************************)
(* The host's UI elements.  An element is [name, type, parent, serial]; a  *)
(* name '%s%d' % (baseName, n) is the pair <<baseName, n>>; serial tells   *)
(* one element from another that later got the same name.  The UI in       *)
(* flight is the record U: ui is the host's elements, serial the host's    *)
(* count, objs the wrapper objects [name, cls, serial] (serial: the        *)
(* element the object was made for), lists the _INSTANCE_LIST attributes,  *)
(* raised an exception raised.                                             *)
(***************************************************************************)
RaiseUI(U) ==
    [U EXCEPT !.raised = TRUE,
              !.error = [type |-> "RuntimeError", cmd |-> "None", name |-> NoParent]]

Elements(seq) == { seq[i] : i \in 1..Len(seq) }

HostNames(ui) == { ui[i].name : i \in 1..Len(ui) }

\* <command>( name, q=True, exists=True )
HostExists(ui, name) == name \in HostNames(ui)

HostElement(ui, name) == ui[CHOOSE i \in 1..Len(ui) : ui[i].name = name]

\* cmd.objectTypeUI( name )
objectTypeUI(ui, name) == HostElement(ui, name).type

\* the element named name and everything below it
RECURSIVE HostSubtree(_, _)
HostSubtree(ui, names) ==
    LET more == names \cup { ui[i].name : i \in { j \in 1..Len(ui) : ui[j].parent \in names } }
    IN IF more = names THEN names ELSE HostSubtree(ui, more)

\* cmd.deleteUI( name ): the element goes with all of its children
HostDeleteUI(U, name) ==
    IF ~HostExists(U.ui, name) THEN RaiseUI(U)
    ELSE LET gone == HostSubtree(U.ui, {name})
         IN [U EXCEPT !.ui = SelectSeq(@, LAMBDA e : e.name \notin gone)]

\* a creation command: a name in use or a missing parent is an error
HostCreateUI(U, name, type, parent) ==
    IF HostExists(U.ui, name) \/ ~HostExists(U.ui, parent) THEN RaiseUI(U)
    ELSE [U EXCEPT !.ui = Append(@, [name |-> name, type |-> type,
                                     parent |-> parent, serial |-> U.serial + 1]),
                   !.serial = @ + 1]

HostNamesOf(elements) == [i \in 1..Len(elements) |-> elements[i].name]

\* <layout>( q=True, ca=True ): the child controls; a popup menu attached
\* to the layout is no control
HostChildArray(ui, name) ==
    HostNamesOf(SelectSeq(ui, LAMBDA e : e.parent = name /\ e.type # "popupMenu"))

\* <menu>( q=True, itemArray=True ), <optionMenu>( q=True, itemListLong=True )
HostItemArray(ui, name) ==
    HostNamesOf(SelectSeq(ui, LAMBDA e : e.parent = name /\ e.type = "menuItem"))

\* <popupMenu>( e=True, dai=True )
HostDeleteAllItems(U, name) ==
    IF ~HostExists(U.ui, name) THEN RaiseUI(U)
    ELSE LET gone == HostSubtree(U.ui, Elements(HostItemArray(U.ui, name)))
         IN [U EXCEPT !.ui = SelectSeq(@, LAMBDA e : e.name \notin gone)]

(***************************************************************************)
(* BaseMelWidget: construction, rehydration and the instance registry      *)
(***************************************************************************)
\* the while loop of __new__: the first n whose name the host does not know
RECURSIVE UniqueName(_, _, _)
UniqueName(ui, baseName, n) ==
    IF HostExists(ui, <<baseName, n>>) THEN UniqueName(ui, baseName, n + 1)
    ELSE <<baseName, n>>

\* the class whose _INSTANCE_LIST attribute cls._INSTANCE_LIST finds
ListOwner(lists, cls) ==
    LET mro == Mro(cls)
        k == CHOOSE i \in 1..Len(mro) :
                 /\ mro[i] \in DOMAIN lists
                 /\ \A j \in 1..(i - 1) : mro[j] \notin DOMAIN lists
    IN mro[k]

\* unicode.__new__( theCls, name ) followed by cls._INSTANCE_LIST.append( new )
Register(U, cls, theCls, name) ==
    LET new == Len(U.objs) + 1
        owner == ListOwner(U.lists, cls)
    IN [U EXCEPT !.objs = Append(@, [name |-> name, cls |-> theCls,
                                     serial |-> HostElement(U.ui, name).serial]),
                 !.lists[owner] = Append(@, new)]

\* BaseMelWidget.__new__: hostFails tells that the host rejects the creation
\* command for a reason of its own (a bad flag, say)
New(U, cls, parent, hostFails) ==
    LET uniqueName == UniqueName(U.ui, WIDGET_CMD(cls), 0)
        created == IF hostFails THEN RaiseUI(U)
                   ELSE HostCreateUI(U, uniqueName, HostTypeOf(WIDGET_CMD(cls)), parent)
    IN IF created.raised
       THEN [created EXCEPT !.error = [type |-> "MelUIError", cmd |-> WIDGET_CMD(cls),
                                       name |-> uniqueName]]
       ELSE Register(created, cls, cls, uniqueName)

\* the string every MelProgressWindow object is
ProgressWindowName == <<"aProgressWindow">>

\* cmd.progressWindow( t=, status=, progress=0, isInterruptable=True ): the
\* host has one progress window at most
HostProgressWindow(U, hostFails) ==
    IF hostFails \/ HostExists(U.ui, ProgressWindowName) THEN RaiseUI(U)
    ELSE [U EXCEPT !.ui = Append(@, [name |-> ProgressWindowName,
                                     type |-> "progressWindow",
                                     parent |-> NoParent, serial |-> U.serial + 1]),
                   !.serial = @ + 1]

\* MelProgressWindow( title, message, increment ): __new__ casts the string
\* and registers nothing, __init__ calls the creation command unguarded
MelProgressWindow_New(U, hostFails) ==
    LET created == HostProgressWindow(U, hostFails)
    IN IF created.raised THEN created
       ELSE [created EXCEPT !.objs = Append(@, [name |-> ProgressWindowName,
                                                cls |-> "MelProgressWindow",
                                                serial |-> created.serial])]

\* a slip: without a candidate the cast is to the base class
FromStrClasses_BaseFallback(ui, cls, theStr) ==
    LET uiCmd == UiCmdOf(objectTypeUI(ui, theStr))
        candidates == IF uiCmd = "None" THEN {}
                      ELSE { subCls \in GetSubclasses : WIDGET_CMD(subCls) = uiCmd }
    IN IF candidates = {} THEN {"BaseMelWidget"} ELSE candidates

\* the classes FromStr may cast to: cls itself when there is no candidate,
\* else candidates[ 0 ], whichever candidate the tracker lists first
FromStrClasses(ui, cls, theStr) ==
    LET uiCmd == UiCmdOf(objectTypeUI(ui, theStr))
        candidates == IF uiCmd = "None" THEN {}
                      ELSE { subCls \in GetSubclasses : WIDGET_CMD(subCls) = uiCmd }
    IN IF candidates = {} THEN {cls} ELSE candidates

\* BaseMelWidget.FromStr, casting to theCls
FromStr(U, cls, theStr, theCls) ==
    IF U.raised THEN U
    ELSE IF ~HostExists(U.ui, theStr) THEN RaiseUI(U)
    ELSE Register(U, cls, theCls, theStr)

\* what a complete iteration of IterInstances yields
ExistingInstList(U, cls) ==
    SelectSeq(U.lists[ListOwner(U.lists, cls)],
              LAMBDA inst : /\ IsInstance(U.objs[inst].cls, cls)
                            /\ HostExists(U.ui, U.objs[inst].name))

\* BaseMelWidget.IterInstances, iterated to the end
IterInstances(U, cls) ==
    LET existingInstList == ExistingInstList(U, cls)
    IN [U EXCEPT !.lists = [c \in (DOMAIN U.lists) \cup {cls} |->
                                IF c = cls THEN existingInstList ELSE U.lists[c]]]

\* BaseMelWidget.exists
exists(U, inst) == HostExists(U.ui, U.objs[inst].name)

\* BaseMelWidget.delete
delete(U, inst) == HostDeleteUI(U, U.objs[inst].name)

\* [ cls.FromStr( name ) for name in names ], the i-th cast to classes[i]
RECURSIVE FromStrEach(_, _, _, _)
FromStrEach(U, cls, names, classes) ==
    IF names = <<>> THEN U
    ELSE FromStrEach(FromStr(U, cls, Head(names), Head(classes)),
                     cls, Tail(names), Tail(classes))

\* the classes the casts of FromStrEach may take, one list per outcome
RECURSIVE FromStrEachClasses(_, _, _)
FromStrEachClasses(ui, cls, names) ==
    IF names = <<>> THEN {<<>>}
    ELSE { <<c>> \o rest : c \in FromStrClasses(ui, cls, Head(names)),
                           rest \in FromStrEachClasses(ui, cls, Tail(names)) }

\* for ui in names: cmd.deleteUI( ui )
RECURSIVE DeleteEach(_, _)
DeleteEach(U, names) ==
    IF names = <<>> \/ U.raised THEN U
    ELSE DeleteEach(HostDeleteUI(U, Head(names)), Tail(names))

\* MelLayout.getChildren
getChildren(U, inst, classes) ==
    IF ~exists(U, inst) THEN RaiseUI(U)
    ELSE FromStrEach(U, "BaseMelWidget", HostChildArray(U.ui, U.objs[inst].name), classes)

\* a slip: the last child is left out
MelLayout_clear_AllButLast(U, inst, classes) ==
    LET children == HostChildArray(U.ui, U.objs[inst].name)
    IN DeleteEach(getChildren(U, inst, classes), SubSeq(children, 1, Len(children) - 1))

\* MelLayout.clear
MelLayout_clear(U, inst, classes) ==
    DeleteEach(getChildren(U, inst, classes), HostChildArray(U.ui, U.objs[inst].name))

\* _MelBaseMenu.getMenuItems, MelOptionMenu.getMenuItems
getMenuItems(U, inst, classes) ==
    IF ~exists(U, inst) THEN RaiseUI(U)
    ELSE FromStrEach(U, "MelMenuItem", HostItemArray(U.ui, U.objs[inst].name), classes)

\* _MelBaseMenu.clear
MelBaseMenu_clear(U, inst, classes) ==
    DeleteEach(getMenuItems(U, inst, classes), HostItemArray(U.ui, U.objs[inst].name))

\* MelPopupMenu.clear
MelPopupMenu_clear(U, inst) == HostDeleteAllItems(U, U.objs[inst].name)

(***************************************************************************)
(* BaseMelWindow                                                           *)
(***************************************************************************)
\* cmd.window( name, ex=True )
BaseMelWindow_Exists(U) == HostExists(U.ui, WINDOW_NAME)

\* BaseMelWindow.Close
BaseMelWindow_Close(U) ==
    IF BaseMelWindow_Exists(U) THEN HostDeleteUI(U, WINDOW_NAME) ELSE U

\* cmd.window( name, **kw ) and, DEFAULT_MENU not being None, cmd.menu( l= ),
\* which the host puts into the window just created
WindowCreate(U) ==
    LET window == IF HostExists(U.ui, WINDOW_NAME) THEN RaiseUI(U)
                  ELSE [U EXCEPT !.ui = Append(@, [name |-> WINDOW_NAME, type |-> "window",
                                                   parent |-> NoParent,
                                                   serial |-> U.serial + 1]),
                                 !.serial = @ + 1]
    IN IF window.raised THEN window
       ELSE HostCreateUI(window, UniqueName(window.ui, "menu", 0), "menu", WINDOW_NAME)

\* a slip: the window of that name is not deleted first
BaseMelWindow_New_KeepPrior(U) == WindowCreate(U)

\* BaseMelWindow.__new__
BaseMelWindow_New(U) ==
    WindowCreate(IF HostExists(U.ui, WINDOW_NAME) THEN HostDeleteUI(U, WINDOW_NAME) ELSE U)

SelfUI == [ui |-> hostUI, serial |-> serial, objs |-> objs,
           lists |-> _INSTANCE_LIST, raised |-> FALSE, error |-> NoError]

CommitUI(U, op, arg) ==
    /\ hostUI' = U.ui
    /\ serial' = U.serial
    /\ objs' = U.objs
    /\ _INSTANCE_LIST' = U.lists
    /\ error' = U.error
    /\ lastOp' = [op |-> op, arg |-> arg, raised |-> U.raised]

Do_New(cls, parent, hostFails) ==
    /\ CommitUI(New(SelfUI, cls, parent, hostFails), "New", cls)
    /\ UNCHANGED <<listVars, widgetVars, eventVars, paneVars>>

Do_MelProgressWindow_New(hostFails) ==
    /\ CommitUI(MelProgressWindow_New(SelfUI, hostFails), "New", "MelProgressWindow")
    /\ UNCHANGED <<listVars, widgetVars, eventVars, paneVars>>

Do_FromStr(cls, theStr) ==
    /\ HostExists(hostUI, theStr)
    /\ \E theCls \in FromStrClasses(hostUI, cls, theStr) :
           CommitUI(FromStr(SelfUI, cls, theStr, theCls), "FromStr",
                    [cls |-> cls, theStr |-> theStr])
    /\ UNCHANGED <<listVars, widgetVars, eventVars, paneVars>>

Do_IterInstances(cls) ==
    /\ CommitUI(IterInstances(SelfUI, cls), "IterInstances", cls)
    /\ UNCHANGED <<listVars, widgetVars, eventVars, paneVars>>

Do_delete(inst) ==
    /\ inst \in 1..Len(objs)
    /\ exists(SelfUI, inst)
    /\ CommitUI(delete(SelfUI, inst), "deleteUI", objs[inst].name)
    /\ UNCHANGED <<listVars, widgetVars, eventVars, paneVars>>

\* the host creates an element on its own account (a script's direct call
\* of a host command, a separator say), under the name the host picks
Do_HostCreate(cmd, parent) ==
    /\ CommitUI(HostCreateUI(SelfUI, UniqueName(hostUI, cmd, 0), HostTypeOf(cmd), parent),
                "hostCreate", cmd)
    /\ UNCHANGED <<listVars, widgetVars, eventVars, paneVars>>

\* the host deletes a widget on its own account
Do_HostDelete(name) ==
    /\ HostExists(hostUI, name)
    /\ name # WINDOW_NAME
    /\ CommitUI(HostDeleteUI(SelfUI, name), "deleteUI", name)
    /\ UNCHANGED <<listVars, widgetVars, eventVars, paneVars>>

Do_MelLayout_clear(inst) ==
    /\ inst \in 1..Len(objs)
    /\ IsInstance(objs[inst].cls, "MelLayout")
    /\ \E classes \in FromStrEachClasses(hostUI, "BaseMelWidget",
                                         HostChildArray(hostUI, objs[inst].name)) :
           CommitUI(MelLayout_clear(SelfUI, inst, classes), "MelLayout.clear", inst)
    /\ UNCHANGED <<listVars, widgetVars, eventVars, paneVars>>

Do_MelBaseMenu_clear(inst) ==
    /\ inst \in 1..Len(objs)
    /\ IsInstance(objs[inst].cls, "_MelBaseMenu")
    /\ ~IsInstance(objs[inst].cls, "MelPopupMenu")
    /\ \E classes \in FromStrEachClasses(hostUI, "MelMenuItem",
                                         HostItemArray(hostUI, objs[inst].name)) :
           CommitUI(MelBaseMenu_clear(SelfUI, inst, classes), "_MelBaseMenu.clear", inst)
    /\ UNCHANGED <<listVars, widgetVars, eventVars, paneVars>>

Do_MelPopupMenu_clear(inst) ==
    /\ inst \in 1..Len(objs)
    /\ IsInstance(objs[inst].cls, "MelPopupMenu")
    /\ CommitUI(MelPopupMenu_clear(SelfUI, inst), "MelPopupMenu.clear", inst)
    /\ UNCHANGED <<listVars, widgetVars, eventVars, paneVars>>

Do_BaseMelWindow_New ==
    /\ CommitUI(BaseMelWindow_New(SelfUI), "BaseMelWindow", serial)
    /\ UNCHANGED <<listVars, widgetVars, eventVars, paneVars>>

\* the user closes the window
Do_HostCloseWindow ==
    /\ HostExists(hostUI, WINDOW_NAME)
    /\ CommitUI(HostDeleteUI(SelfUI, WINDOW_NAME), "deleteUI", WINDOW_NAME)
    /\ UNCHANGED <<listVars, widgetVars, eventVars, paneVars>>

Do_BaseMelWindow_Close ==
    /\ CommitUI(BaseMelWindow_Close(SelfUI), "Close", serial)
    /\ UNCHANGED <<listVars, widgetVars, eventVars, paneVars>>

\* the widget names the bounds let exist
WidgetNames == { <<c, n>> : c \in CmdModule, n \in 0..MaxSerial }

RegistryClasses == { "BaseMelWidget", "MelLabel" }

(***************************************************************************)
(* The host's textScrollList, as the wrapper's commands use it.  A list    *)
(* widget in flight is the record L: obj is _items, disp and sel are the   *)
(* host's items and selected indices, raised tells that an exception has   *)
(* been raised (what follows in the method is then skipped).               *)
(***************************************************************************)
Raise(L) == [L EXCEPT !.raised = TRUE]

\* textScrollList -e -append str
HostAppend(L, str) == [L EXCEPT !.disp = Append(@, str)]

\* textScrollList -e -removeIndexedItem i: the selection follows the items
HostRemoveIndexedItem(L, i) ==
    IF i \notin 1..Len(L.disp) THEN Raise(L)
    ELSE [L EXCEPT !.disp = SubSeq(@, 1, i - 1) \o SubSeq(@, i + 1, Len(@)),
                   !.sel = { j \in @ : j < i } \cup { j - 1 : j \in { k \in @ : k > i } }]

\* textScrollList -e -removeAll
HostRemoveAll(L) == [L EXCEPT !.disp = <<>>, !.sel = {}]

\* textScrollList -e -selectIndexedItem i
HostSelectIndexedItem(L, i) ==
    IF i \notin 1..Len(L.disp) THEN Raise(L)
    ELSE [L EXCEPT !.sel = IF ams THEN @ \cup {i} ELSE {i}]

\* textScrollList -e -deselectAll
HostDeselectAll(L) == [L EXCEPT !.sel = {}]

(***************************************************************************)
(* MelTextScrollList and MelObjectScrollList methods, on a list in flight. *)
(* A method called on self dispatches on the class of the widget.          *)
(***************************************************************************)
getItems(L) == IF isObj THEN L.obj ELSE L.disp

\* the selected indices, 0-based: the host's are 1-based
SelIdxSet(L) == { i - 1 : i \in L.sel }

\* getSelectedIdxs: the lists the host's query may return (the host fixes
\* the order of the indices it reports, the code does not)
getSelectedIdxs(L) == Orders(SelIdxSet(L))

selectByIdx(L, idx) ==
    IF L.raised THEN L ELSE HostSelectIndexedItem(L, idx + 1)

MelTextScrollList_append(L, item) == HostAppend(L, item)

MelObjectScrollList_append(L, item) ==
    HostAppend([L EXCEPT !.obj = Append(@, item)], itemAsStr(item))

append(L, item) ==
    IF L.raised THEN L
    ELSE IF isObj THEN MelObjectScrollList_append(L, item)
    ELSE MelTextScrollList_append(L, item)

RECURSIVE appendItems(_, _)
appendItems(L, items) ==
    IF items = <<>> THEN L
    ELSE appendItems(append(L, Head(items)), Tail(items))

MelTextScrollList_removeByIdx(L, idx) == HostRemoveIndexedItem(L, idx + 1)

\* a slip: the host is handed the 0-based index
MelObjectScrollList_removeByIdx_ZeroBased(L, idx) ==
    IF idx >= Len(L.obj) THEN Raise(L)
    ELSE HostRemoveIndexedItem([L EXCEPT !.obj = PyPop(@, idx)], idx)

MelObjectScrollList_removeByIdx(L, idx) ==
    IF idx >= Len(L.obj) THEN Raise(L)
    ELSE HostRemoveIndexedItem([L EXCEPT !.obj = PyPop(@, idx)], idx + 1)

removeByIdx(L, idx) ==
    IF L.raised THEN L
    ELSE IF isObj THEN MelObjectScrollList_removeByIdx(L, idx)
    ELSE MelTextScrollList_removeByIdx(L, idx)

\* the loop of removeByValue over enumerate( self._items ), which pops from
\* the list it iterates: i is the iterator's position
RECURSIVE RemoveByStr(_, _, _)
RemoveByStr(L, i, valueStr) ==
    IF i >= Len(L.obj) \/ L.raised THEN L
    ELSE IF itemAsStr(At(L.obj, i)) = valueStr
         THEN RemoveByStr(HostRemoveIndexedItem([L EXCEPT !.obj = PyPop(@, i)], i + 1),
                          i + 1, valueStr)
         ELSE RemoveByStr(L, i + 1, valueStr)

MelObjectScrollList_removeByValue(L, value) ==
    IF PyIn(value, L.obj)
    THEN LET idx == PyIndex(L.obj, value)
         IN HostRemoveIndexedItem([L EXCEPT !.obj = PyPop(@, idx)], idx + 1)
    ELSE RemoveByStr(L, 0, itemAsStr(value))

\* removeSelectedItems: idxs is the list getSelectedIdxs() returned
RECURSIVE removeSelectedItems(_, _)
removeSelectedItems(L, idxs) ==
    IF idxs = <<>> THEN L
    ELSE removeSelectedItems(removeByIdx(L, Head(idxs)), Tail(idxs))

MelTextScrollList_clear(L) == HostRemoveAll(L)

MelObjectScrollList_clear(L) == HostRemoveAll([L EXCEPT !.obj = <<>>])

clear(L) ==
    IF isObj THEN MelObjectScrollList_clear(L) ELSE MelTextScrollList_clear(L)

setItems(L, items) == appendItems(clear(L), items)

clearSelection(L) == HostDeselectAll(L)

\* for idx in idxs: self.selectByIdx( idx+delta, False )
RECURSIVE SelectEach(_, _, _)
SelectEach(L, idxs, delta) ==
    IF idxs = <<>> THEN L
    ELSE SelectEach(selectByIdx(L, Head(idxs) + delta), Tail(idxs), delta)

\* the regeneration loop of update
RECURSIVE Regenerate(_, _)
Regenerate(L, items) ==
    IF items = <<>> THEN L
    ELSE Regenerate(HostAppend(L, itemAsStr(Head(items))), Tail(items))

\* update: selIdxs is the list getSelectedIdxs() returned
update(L, selIdxs, maintainSelection) ==
    LET regenerated == Regenerate(HostRemoveAll(L), L.obj)
    IN IF maintainSelection THEN SelectEach(regenerated, selIdxs, 0)
       ELSE regenerated

\* for idx in reversed( selIdxs ): item = items.pop( idx ); items.insert( idx+delta, item )
RECURSIVE MoveLoop(_, _, _)
MoveLoop(items, idxs, delta) ==
    IF idxs = <<>> THEN items
    ELSE LET idx == Head(idxs)
             item == At(items, idx)
         IN MoveLoop(PyInsert(PyPop(items, idx), idx + delta, item), Tail(idxs), delta)

UpCount(count, selIdxs) == Min(count, selIdxs[1])

\* selIdxs = self.getSelectedIdxs(); selIdxs.sort()
moveSelectedItemsUp(L, count) ==
    LET selIdxs == Sorted(SelIdxSet(L))
    IN IF selIdxs = <<>> THEN Raise(L)
       ELSE LET c == UpCount(count, selIdxs)
            IN IF selIdxs[1] > 0
               THEN LET items == MoveLoop(getItems(L), Reversed(selIdxs), 0 - c)
                    IN SelectEach(clearSelection(setItems(L, items)), selIdxs, 0 - c)
               ELSE L

\* a slip: the length of the list taken for its last index
DownCount_ByLength(count, selIdxs, items) ==
    Min(count, Len(items) - selIdxs[Len(selIdxs)])

DownCount(count, selIdxs, items) ==
    LET maxIdx == Len(items) - 1
    IN Min(count, maxIdx - selIdxs[Len(selIdxs)])

moveSelectedItemsDown(L, count) ==
    LET selIdxs == Sorted(SelIdxSet(L))
    IN IF selIdxs = <<>> THEN Raise(L)
       ELSE LET maxIdx == Len(getItems(L)) - 1
                c == DownCount(count, selIdxs, getItems(L))
            IN IF selIdxs[Len(selIdxs)] < maxIdx
               THEN LET items == MoveLoop(getItems(L), Reversed(selIdxs), c)
                    IN SelectEach(clearSelection(setItems(L, items)), selIdxs, c)
               ELSE L

(***************************************************************************)
(* The list widget: its operations as actions.  Each action is one call of *)
(* a method, from the widget's state to the state the call leaves.         *)
(***************************************************************************)
Self == [obj |-> _items, disp |-> hostItems, sel |-> hostSel, raised |-> FALSE]

Commit(L, op, arg) ==
    /\ _items' = L.obj
    /\ hostItems' = L.disp
    /\ hostSel' = L.sel
    /\ lastOp' = [op |-> op, arg |-> arg, raised |-> L.raised]
    /\ UNCHANGED <<isObj, ams>>
    /\ UNCHANGED <<widgetVars, uiVars, eventVars, paneVars>>

\* the item lists passed to appendItems and setItems
Batches == {<<>>} \cup { <<x>> : x \in Items } \cup { <<x, y>> : x \in Items, y \in Items }

Counts == 1..MaxCount

Do_append(item) ==
    /\ Len(hostItems) < MaxLen
    /\ Commit(append(Self, item), "append", 0)

Do_appendItems(items) ==
    /\ Len(hostItems) + Len(items) <= MaxLen
    /\ Commit(appendItems(Self, items), "appendItems", 0)

Do_setItems(items) ==
    /\ Len(items) <= MaxLen
    /\ Commit(setItems(Self, items), "setItems", 0)

Do_removeByIdx(idx) ==
    /\ idx < Len(getItems(Self))
    /\ Commit(removeByIdx(Self, idx), "removeByIdx", 0)

Do_removeByValue(value) ==
    /\ isObj
    /\ Commit(MelObjectScrollList_removeByValue(Self, value), "removeByValue", 0)

Do_removeSelectedItems ==
    \E idxs \in getSelectedIdxs(Self) :
        Commit(removeSelectedItems(Self, idxs), "removeSelectedItems", 0)

Do_clear == Commit(clear(Self), "clear", 0)

Do_update(maintainSelection) ==
    /\ isObj
    /\ \E selIdxs \in getSelectedIdxs(Self) :
           Commit(update(Self, selIdxs, maintainSelection), "update", 0)

Do_selectByIdx(idx) ==
    /\ idx < Len(hostItems)
    /\ Commit(selectByIdx(Self, idx), "selectByIdx", 0)

Do_clearSelection == Commit(clearSelection(Self), "clearSelection", 0)

Do_moveSelectedItemsUp(count) ==
    Commit(moveSelectedItemsUp(Self, count), "moveSelectedItemsUp", count)

Do_moveSelectedItemsDown(count) ==
    Commit(moveSelectedItemsDown(Self, count), "moveSelectedItemsDown", count)

(***************************************************************************)
(* BaseMelWidget: size and visibility.  A widget in flight is the record   *)
(* W: size and vis are the host's, pre is the _preSize attribute.          *)
(***************************************************************************)
Sizes == (1..MaxDim) \X (1..MaxDim)

getSize(W) == <<W.size[1], W.size[2]>>

setSize(W, widthHeight) == [W EXCEPT !.size = <<widthHeight[1], widthHeight[2]>>]

setWidth(W, width) == [W EXCEPT !.size[1] = width]

setHeight(W, height) == [W EXCEPT !.size[2] = height]

\* a slip: the size is cached after the widget has been shrunk
setVisibility_CacheAfterShrink(W, visibility) ==
    LET sized == IF visibility
                 THEN IF W.pre # {} THEN setSize(W, CHOOSE p \in W.pre : TRUE) ELSE W
                 ELSE LET shrunk == setSize(W, <<1, 1>>)
                      IN [shrunk EXCEPT !.pre = {getSize(shrunk)}]
    IN [sized EXCEPT !.vis = visibility]

setVisibility(W, visibility) ==
    LET sized == IF visibility
                 THEN IF W.pre # {} THEN setSize(W, CHOOSE p \in W.pre : TRUE) ELSE W
                 ELSE setSize([W EXCEPT !.pre = {getSize(W)}], <<1, 1>>)
    IN [sized EXCEPT !.vis = visibility]

hide(W) == setVisibility(W, FALSE)

show(W) == setVisibility(W, TRUE)

SelfWidget == [size |-> hostSize, vis |-> hostVis, pre |-> _preSize]

CommitWidget(W, op, arg) ==
    /\ hostSize' = W.size
    /\ hostVis' = W.vis
    /\ _preSize' = W.pre
    /\ visSize' = IF hostVis /\ op \in {"setSize", "setWidth", "setHeight"}
                  THEN W.size ELSE visSize
    /\ lastOp' = [op |-> op, arg |-> arg, raised |-> FALSE]
    /\ UNCHANGED <<listVars, uiVars, eventVars, paneVars>>

\* what a visibility call is recorded with: its argument, and the widget's
\* visibility and size when it was called
VisCall(visibility) ==
    [visibility |-> visibility, visBefore |-> hostVis, sizeBefore |-> hostSize]

Do_setVisibility(visibility) ==
    CommitWidget(setVisibility(SelfWidget, visibility), "setVisibility", VisCall(visibility))

Do_hide == CommitWidget(hide(SelfWidget), "setVisibility", VisCall(FALSE))

Do_show == CommitWidget(show(SelfWidget), "setVisibility", VisCall(TRUE))

Do_setSize(widthHeight) ==
    CommitWidget(setSize(SelfWidget, widthHeight), "setSize", widthHeight)

Do_setWidth(width) == CommitWidget(setWidth(SelfWidget, width), "setWidth", width)

Do_setHeight(height) == CommitWidget(setHeight(SelfWidget, height), "setHeight", height)

(***************************************************************************)
(* Event dispatch.  chain[1] is a widget, chain[i + 1] the parent of       *)
(* chain[i], the last element the window; each element tells what          *)
(* getattr( self, methodName, None ) gives on that object.  A dispatch in   *)
(* flight is the record E: at is the object whose processEvent is called   *)
(* next (0: none), calls the objects whose method has been invoked.        *)
(***************************************************************************)
Attrs == { "callable", "attribute", "absent" }

\* a slip: an object without the handler drops the event
BaseMelWidget_processEvent_NoForward(E, self) ==
    IF chain[self] = "callable"
    THEN [at |-> 0, calls |-> Append(E.calls, self)]
    ELSE [at |-> 0, calls |-> E.calls]

\* BaseMelWidget.processEvent: self.parent is the next object of the chain
BaseMelWidget_processEvent(E, self) ==
    IF chain[self] = "callable"
    THEN [at |-> 0, calls |-> Append(E.calls, self)]
    ELSE [at |-> self + 1, calls |-> E.calls]

\* BaseMelWindow.processEvent
BaseMelWindow_processEvent(E, self) ==
    IF chain[self] = "callable"
    THEN [at |-> 0, calls |-> Append(E.calls, self)]
    ELSE [at |-> 0, calls |-> E.calls]

\* BaseMelWidget.sendEvent
sendEvent(E, self) == [at |-> self + 1, calls |-> E.calls]

\* obj.processEvent( ... ), by the class of obj
processEvent(E, obj) ==
    IF obj = Len(chain) THEN BaseMelWindow_processEvent(E, obj)
    ELSE BaseMelWidget_processEvent(E, obj)

NoEvent == [at |-> 0, calls |-> <<>>]

CommitEvent(E) ==
    /\ at' = E.at
    /\ calls' = E.calls
    /\ UNCHANGED <<chain, listVars, widgetVars, uiVars, paneVars>>

\* a callback calls widget.processEvent( methodName )
Do_processEvent(widget) ==
    /\ at = 0
    /\ widget \in 1..(Len(chain) - 1)
    /\ CommitEvent(processEvent(NoEvent, widget))
    /\ lastOp' = [op |-> "processEvent", arg |-> widget, raised |-> FALSE]

\* a callback calls widget.sendEvent( methodName )
Do_sendEvent(widget) ==
    /\ at = 0
    /\ widget \in 1..(Len(chain) - 1)
    /\ CommitEvent(sendEvent(NoEvent, widget))
    /\ lastOp' = [op |-> "sendEvent", arg |-> widget, raised |-> FALSE]

\* the call self.parent.processEvent( methodName ) that is pending
Do_parent_processEvent ==
    /\ at # 0
    /\ CommitEvent(processEvent([at |-> at, calls |-> calls], at))
    /\ UNCHANGED lastOp

(***************************************************************************)
(* MelPaneLayout: pane sizes.  The host numbers the panes from 1; its      *)
(* paneSize flag takes (index, width, height) and is taken to answer a     *)
(* query with the (width, height) of the pane asked for, as the code reads *)
(* it.  A pane layout in flight is the record P: panes are the host's      *)
(* sizes, ret what the last query returned, raised an exception raised.    *)
(***************************************************************************)
\* self( q=True, paneSize=idx )
HostPaneSizeQuery(P, idx) ==
    IF idx \in 1..Len(P.panes) THEN [P EXCEPT !.ret = P.panes[idx]]
    ELSE [P EXCEPT !.raised = TRUE]

\* self( e=True, paneSize=size )
HostPaneSizeEdit(P, size) ==
    IF size[1] \in 1..Len(P.panes)
    THEN [P EXCEPT !.panes[size[1]] = <<size[2], size[3]>>]
    ELSE [P EXCEPT !.raised = TRUE]

\* MelPaneLayout.getPaneSize
getPaneSize(P, idx) == HostPaneSizeQuery(P, idx + 1)

\* MelPaneLayout.setPaneSize
setPaneSize(P, idx, size) == HostPaneSizeEdit(P, <<idx + 1, size[1], size[2]>>)

\* MelPaneLayout.setPaneWidth: idx, already raised by one, is handed to
\* getPaneSize
setPaneWidth(P, idx, size) ==
    LET curSize == getPaneSize(P, idx + 1)
    IN IF curSize.raised THEN curSize
       ELSE HostPaneSizeEdit(curSize, <<idx + 1, curSize.ret[1], size>>)

\* MelPaneLayout.setPaneHeight
setPaneHeight(P, idx, size) ==
    LET curSize == getPaneSize(P, idx + 1)
    IN IF curSize.raised THEN curSize
       ELSE HostPaneSizeEdit(curSize, <<idx + 1, size, curSize.ret[2]>>)

SelfPanes == [panes |-> hostPanes, ret |-> <<0, 0>>, raised |-> FALSE]

CommitPanes(P, op, idx, val) ==
    /\ hostPanes' = P.panes
    /\ lastOp' = [op |-> op, arg |-> [idx |-> idx, val |-> val, ret |-> P.ret],
                  raised |-> P.raised]
    /\ UNCHANGED <<listVars, widgetVars, uiVars, eventVars>>

PaneIdxs == 0..(NumPanes - 1)

Do_getPaneSize(idx) == CommitPanes(getPaneSize(SelfPanes, idx), "getPaneSize", idx, 0)

Do_setPaneSize(idx, size) ==
    CommitPanes(setPaneSize(SelfPanes, idx, size), "setPaneSize", idx, size)

Do_setPaneWidth(idx, size) ==
    CommitPanes(setPaneWidth(SelfPanes, idx, size), "setPaneWidth", idx, size)

Do_setPaneHeight(idx, size) ==
    CommitPanes(setPaneHeight(SelfPanes, idx, size), "setPaneHeight", idx, size)

(***************************************************************************)
(* Specifications                                                          *)
(***************************************************************************)
\* after MelTextScrollList.__init__ / MelObjectScrollList.__init__
InitList ==
    /\ isObj \in BOOLEAN
    /\ ams \in BOOLEAN
    /\ _items = <<>>
    /\ hostItems = <<>>
    /\ hostSel = {}

Init ==
    /\ InitList
    /\ IdleWidget
    /\ IdleUI
    /\ IdleEvents
    /\ IdlePanes
    /\ lastOp = NoOp

Next ==
    \/ \E item \in Items : Do_append(item)
    \/ \E items \in Batches : Do_appendItems(items)
    \/ \E items \in Batches : Do_setItems(items)
    \/ \E idx \in 0..(MaxLen - 1) : Do_removeByIdx(idx)
    \/ \E value \in Items : Do_removeByValue(value)
    \/ Do_removeSelectedItems
    \/ Do_clear
    \/ \E m \in BOOLEAN : Do_update(m)
    \/ \E idx \in 0..(MaxLen - 1) : Do_selectByIdx(idx)
    \/ Do_clearSelection
    \/ \E count \in Counts : Do_moveSelectedItemsUp(count)
    \/ \E count \in Counts : Do_moveSelectedItemsDown(count)

Spec == Init /\ [][Next]_vars

\* after BaseMelWidget.__new__ / __init__: created visible, with the size
\* the constructor's width and height gave it
InitWidget ==
    /\ hostSize \in Sizes
    /\ hostVis = TRUE
    /\ _preSize = {}
    /\ visSize = hostSize
    /\ IdleList
    /\ IdleUI
    /\ IdleEvents
    /\ IdlePanes
    /\ lastOp = NoOp

NextWidget ==
    \/ \E visibility \in BOOLEAN : Do_setVisibility(visibility)
    \/ Do_hide
    \/ Do_show
    \/ \E widthHeight \in Sizes : Do_setSize(widthHeight)
    \/ \E width \in 1..MaxDim : Do_setWidth(width)
    \/ \E height \in 1..MaxDim : Do_setHeight(height)

SpecWidget == InitWidget /\ [][NextWidget]_vars

InitRegistry ==
    /\ IdleUI
    /\ IdleList
    /\ IdleWidget
    /\ IdleEvents
    /\ IdlePanes
    /\ lastOp = NoOp

NextRegistry ==
    \/ \E cls \in RegistryClasses \ {"BaseMelWidget"}, hostFails \in BOOLEAN :
           /\ serial < MaxSerial
           /\ Len(objs) < MaxObjs
           /\ Do_New(cls, WINDOW_NAME, hostFails)
    \/ \E cls \in RegistryClasses, theStr \in WidgetNames :
           /\ Len(objs) < MaxObjs
           /\ Do_FromStr(cls, theStr)
    \/ \E cls \in RegistryClasses : Do_IterInstances(cls)
    \/ \E inst \in 1..MaxObjs : Do_delete(inst)
    \/ /\ serial < MaxSerial
       /\ Do_HostCreate("separator", WINDOW_NAME)
    \/ \E name \in WidgetNames : Do_HostDelete(name)

SpecRegistry == InitRegistry /\ [][NextRegistry]_vars

\* constructions of widgets of several classes, some of which the host
\* rejects, and deletions
CreationClasses == { "MelLabel", "MelButton", "MelForm" }

NextCreation ==
    \/ \E cls \in CreationClasses, hostFails \in BOOLEAN :
           /\ serial < MaxSerial + 1
           /\ Len(objs) < MaxObjs + 1
           /\ Do_New(cls, WINDOW_NAME, hostFails)
    \/ \E hostFails \in BOOLEAN :
           /\ serial < MaxSerial + 1
           /\ Len(objs) < MaxObjs + 1
           /\ Do_MelProgressWindow_New(hostFails)
    \/ \E inst \in 1..(MaxObjs + 1) : Do_delete(inst)
    \/ \E cls \in {"BaseMelWidget"} : Do_IterInstances(cls)

SpecCreation == InitRegistry /\ [][NextCreation]_vars

\* a form under the window, an option menu in the form and a popup menu
\* attached to the form, each constructed through its wrapper class
IdleU == [ui |-> <<TheWindow>>, serial |-> 0, objs |-> <<>>,
          lists |-> [c \in {"BaseMelWidget"} |-> <<>>], raised |-> FALSE,
          error |-> NoError]

TheForm == <<"formLayout", 0>>

TheOptionMenu == <<"optionMenu", 0>>

ThePopupMenu == <<"popupMenu", 0>>

Scaffold ==
    New(New(New(IdleU, "MelForm", WINDOW_NAME, FALSE),
            "MelOptionMenu", TheForm, FALSE),
        "MelPopupMenu", TheForm, FALSE)

InitContainers ==
    /\ hostUI = Scaffold.ui
    /\ serial = Scaffold.serial
    /\ objs = Scaffold.objs
    /\ _INSTANCE_LIST = Scaffold.lists
    /\ error = NoError
    /\ isObj \in BOOLEAN
    /\ ams = FALSE
    /\ _items = <<>>
    /\ hostItems = <<>>
    /\ hostSel = {}
    /\ IdleWidget
    /\ IdleEvents
    /\ IdlePanes
    /\ lastOp = NoOp

\* what the scroll list is filled with before it is cleared
Fills == { <<>>, << <<"a">> >>, << <<"a">>, <<"g", "|", "b">> >> }

KidsRoom == serial < Scaffold.serial + MaxKids

NextContainers ==
    \/ \E cmd \in {"button", "separator"} :
           /\ KidsRoom
           /\ Do_HostCreate(cmd, TheForm)
    \/ \E menu \in {TheOptionMenu, ThePopupMenu}, hostFails \in BOOLEAN :
           /\ KidsRoom
           /\ Do_New("MelMenuItem", menu, hostFails)
    \/ \E inst \in 1..Len(Scaffold.objs) : Do_delete(inst)
    \/ \E inst \in 1..Len(Scaffold.objs) : Do_MelLayout_clear(inst)
    \/ \E inst \in 1..Len(Scaffold.objs) : Do_MelBaseMenu_clear(inst)
    \/ \E inst \in 1..Len(Scaffold.objs) : Do_MelPopupMenu_clear(inst)
    \/ \E items \in Fills : Do_setItems(items)
    \/ Do_clear

SpecContainers == InitContainers /\ [][NextContainers]_vars

\* no window open, no widget, no wrapper object
InitWindow ==
    /\ hostUI = <<>>
    /\ serial = 0
    /\ objs = <<>>
    /\ _INSTANCE_LIST = [c \in {"BaseMelWidget"} |-> <<>>]
    /\ error = NoError
    /\ IdleList
    /\ IdleWidget
    /\ IdleEvents
    /\ IdlePanes
    /\ lastOp = NoOp

NextWindow ==
    \/ /\ serial + 2 <= MaxWindowSerial
       /\ Do_BaseMelWindow_New
    \/ Do_BaseMelWindow_Close
    \/ Do_HostCloseWindow
    \/ \E hostFails \in BOOLEAN :
           /\ serial < MaxWindowSerial
           /\ Len(objs) < MaxObjs
           /\ Do_New("MelForm", WINDOW_NAME, hostFails)
    \/ /\ serial < MaxWindowSerial
       /\ Do_HostCreate("button", WINDOW_NAME)
    \/ \E inst \in 1..MaxObjs : Do_delete(inst)

SpecWindow == InitWindow /\ [][NextWindow]_vars

\* a pane layout whose panes have any sizes
InitPanes ==
    /\ hostPanes \in [1..NumPanes -> Sizes]
    /\ IdleList
    /\ IdleWidget
    /\ IdleUI
    /\ IdleEvents
    /\ lastOp = NoOp

NextPanes ==
    \/ \E idx \in PaneIdxs : Do_getPaneSize(idx)
    \/ \E idx \in PaneIdxs, size \in Sizes : Do_setPaneSize(idx, size)
    \/ \E idx \in PaneIdxs, size \in 1..MaxDim : Do_setPaneWidth(idx, size)
    \/ \E idx \in PaneIdxs, size \in 1..MaxDim : Do_setPaneHeight(idx, size)

SpecPanes == InitPanes /\ [][NextPanes]_vars

\* a widget under up to MaxDepth - 1 wrapper widgets under a window, each
\* object with or without an attribute of the event's name
InitEvents ==
    /\ \E depth \in 1..MaxDepth : chain \in [1..(depth + 1) -> Attrs]
    /\ at = 0
    /\ calls = <<>>
    /\ IdleList
    /\ IdleWidget
    /\ IdleUI
    /\ IdlePanes
    /\ lastOp = NoOp

NextEvents ==
    \/ \E widget \in 1..MaxDepth : Do_processEvent(widget)
    \/ \E widget \in 1..MaxDepth : Do_sendEvent(widget)
    \/ Do_parent_processEvent

\* the calls are synchronous: a pending call is made
SpecEvents == InitEvents /\ [][NextEvents]_vars /\ WF_vars(Do_parent_processEvent)

(***************************************************************************)
(* Claims about the list widget                                            *)
(***************************************************************************)
ItemsNow == IF isObj THEN _items ELSE hostItems

SelIdxsNow == { i - 1 : i \in hostSel }

SelItemsNow == { At(ItemsNow, idx) : idx \in SelIdxsNow }

Distinct(s) == \A i, j \in 1..Len(s) : i # j => s[i] # s[j]

Restrict(s, S) == SelectSeq(s, LAMBDA x : x \in S)

IsMove(op) == op \in {"moveSelectedItemsUp", "moveSelectedItemsDown"}

\* C1: a move of a non-empty selection by count >= 1 leaves the items that
\* were selected in the same relative order in the list (stated on lists of
\* pairwise distinct items, where "the items that were selected" names
\* positions unambiguously).
C1_RelativeOrderKept ==
    [][ (IsMove(lastOp'.op) /\ hostSel # {} /\ Distinct(ItemsNow))
            => Restrict(ItemsNow', SelItemsNow) = Restrict(ItemsNow, SelItemsNow) ]_vars

\* C2: after a move on a multi-selection list, the selection (the shifted
\* indices) designates exactly the items that were selected before the call.
C2_SelectionFollowsItems ==
    [][ (IsMove(lastOp'.op) /\ ams /\ hostSel # {})
            => SelItemsNow' = SelItemsNow ]_vars

\* the shift a move by count is to make
EffectiveShift(op, count) ==
    LET lo == CHOOSE x \in SelIdxsNow : \A y \in SelIdxsNow : x <= y
        hi == CHOOSE x \in SelIdxsNow : \A y \in SelIdxsNow : x >= y
    IN IF op = "moveSelectedItemsUp" THEN 0 - Min(count, lo)
       ELSE Min(count, (Len(ItemsNow) - 1) - hi)

\* C3: a move of a non-empty selection is clamped to the list: it raises
\* nothing, every selected index is shifted by min(count, smallest index)
\* (up) or min(count, last index - largest index) (down) and stays within
\* [0, len-1], the list keeps its length, and a move whose shift is 0 changes
\* neither the items nor the selection.
C3_MoveClamped ==
    [][ (IsMove(lastOp'.op) /\ hostSel # {})
            => LET d == EffectiveShift(lastOp'.op, lastOp'.arg)
               IN /\ ~lastOp'.raised
                  /\ SelIdxsNow' = { idx + d : idx \in SelIdxsNow }
                  /\ SelIdxsNow' \subseteq 0..(Len(ItemsNow) - 1)
                  /\ Len(ItemsNow') = Len(ItemsNow)
                  /\ Len(hostItems') = Len(hostItems)
                  /\ (d = 0 => /\ ItemsNow' = ItemsNow
                               /\ hostItems' = hostItems
                               /\ hostSel' = hostSel) ]_vars

\* a move down by 3 on a three-item list: whatever was selected, the shift
\* was cut short by the end of the list
C3_Witness ==
    /\ lastOp.op = "moveSelectedItemsDown"
    /\ lastOp.arg = 3
    /\ Len(hostItems) = 3
    /\ hostSel = {2, 3}

\* C5: the shadow sequence and the host's display sequence of a
\* MelObjectScrollList have the same length, and the host displays
\* itemAsStr(_items[i]) at every position i.
C5_LockStep ==
    isObj => /\ Len(_items) = Len(hostItems)
             /\ \A i \in 1..Len(_items) : hostItems[i] = itemAsStr(_items[i])

\* a removeByValue of a value that is not in the list has removed the items
\* displayed like it, and left an item displayed otherwise
C5_Witness ==
    /\ isObj
    /\ lastOp.op = "removeByValue"
    /\ _items = << <<"g", "|", "b">> >>
    /\ hostItems = << <<"b">> >>

\* the elements of s at the positions (1-based) outside sel, in order
Unselected(s, sel) ==
    LET F[k \in 0..Len(s)] ==
            IF k = 0 THEN <<>>
            ELSE IF k \in sel THEN F[k - 1] ELSE Append(F[k - 1], s[k])
    IN F[Len(s)]

\* C15: removeSelectedItems() leaves exactly the items that were at the
\* unselected positions, in their order, whatever the number of selected
\* items.
C15_RemovesExactlySelected ==
    [][ lastOp'.op = "removeSelectedItems"
            => /\ ~lastOp'.raised
               /\ ItemsNow' = Unselected(ItemsNow, hostSel)
               /\ hostItems' = Unselected(hostItems, hostSel) ]_vars

(***************************************************************************)
(* Claims about size and visibility                                        *)
(***************************************************************************)
\* C4: a visible widget of size (w, h) that is hidden and then at once shown
\* is visible with size exactly (w, h).
C4_HideShowRestoresSize ==
    [][ ( /\ lastOp.op = "setVisibility"
          /\ ~lastOp.arg.visibility
          /\ lastOp.arg.visBefore
          /\ lastOp'.op = "setVisibility"
          /\ lastOp'.arg.visibility )
            => /\ hostVis'
               /\ hostSize' = lastOp.arg.sizeBefore ]_vars

\* a widget of size (3, 2) was hidden while visible and has just been shown
C4_Witness ==
    /\ lastOp.op = "setVisibility"
    /\ lastOp.arg.visibility
    /\ ~lastOp.arg.visBefore
    /\ lastOp.arg.sizeBefore = <<1, 1>>
    /\ _preSize = {<<3, 2>>}
    /\ hostVis
    /\ hostSize = <<3, 2>>

\* C16: whatever hide(), show(), setVisibility() and setSize() calls have
\* been made, a visible widget has the size it was last given while visible
\* (its creation size, or that of the last setSize made while visible).
C16_VisibleSizeIsLastGiven == hostVis => hostSize = visSize

(***************************************************************************)
(* Claims about rehydration, the instance registry and existence           *)
(***************************************************************************)
\* the host element a wrapper object was made for is still there
Alive(inst) == \E i \in 1..Len(hostUI) : hostUI[i].serial = objs[inst].serial

\* C6: a complete BaseMelWidget.IterInstances() yields every wrapper object
\* instantiated whose host widget still exists, whatever was constructed,
\* rehydrated, deleted and iterated (on any class) before; and a completed
\* iteration leaves no entry of a non-existing widget in the list of the
\* class it was invoked on.
C6_RegistryComplete ==
    lastOp.op = "IterInstances" =>
        /\ lastOp.arg = "BaseMelWidget" =>
               \A inst \in 1..Len(objs) :
                   Alive(inst) => inst \in Elements(_INSTANCE_LIST["BaseMelWidget"])
        /\ \A inst \in Elements(_INSTANCE_LIST[lastOp.arg]) :
               HostExists(hostUI, objs[inst].name)

\* the command a host type stands for: the table's entry, else the command
\* named like the type
CommandOfType(uiTypeStr) ==
    IF uiTypeStr = "staticText" THEN "text"
    ELSE IF uiTypeStr = "field" THEN "textField"
    ELSE IF uiTypeStr \in CmdModule THEN uiTypeStr
    ELSE "None"

Rehydrated == objs[Len(objs)]

\* C7 as stated: FromStr(name), for the name of any widget of the host,
\* returns an instance equal to name whose class declares the command of the
\* widget's host-reported type.
C7_RehydratedCommandMatches ==
    (lastOp.op = "FromStr" /\ HostExists(hostUI, lastOp.arg.theStr)) =>
        /\ ~lastOp.raised
        /\ Rehydrated.name = lastOp.arg.theStr
        /\ WIDGET_CMD(Rehydrated.cls)
               = CommandOfType(objectTypeUI(hostUI, lastOp.arg.theStr))

\* C7 amended: FromStr(name), for the name of a widget of the host whose
\* type stands for a command that some registered wrapper subclass declares,
\* returns an instance equal to name whose class declares that command.
C7_RehydratedCommandMatchesIfRegistered ==
    (lastOp.op = "FromStr" /\ HostExists(hostUI, lastOp.arg.theStr)) =>
        LET uiCmd == CommandOfType(objectTypeUI(hostUI, lastOp.arg.theStr))
        IN /\ ~lastOp.raised
           /\ Rehydrated.name = lastOp.arg.theStr
           /\ (\E subCls \in GetSubclasses : WIDGET_CMD(subCls) = uiCmd)
                  => WIDGET_CMD(Rehydrated.cls) = uiCmd

\* BaseMelWidget.FromStr of a label's name has given a MelLabel
C7_Witness ==
    /\ lastOp.op = "FromStr"
    /\ lastOp.arg.cls = "BaseMelWidget"
    /\ objectTypeUI(hostUI, lastOp.arg.theStr) = "staticText"
    /\ Rehydrated.cls = "MelLabel"

\* C9: a wrapper object whose host widget has been deleted does not exist(),
\* whatever has been constructed since.
C9_DeletedStaysDeleted ==
    \A inst \in 1..Len(objs) : ~Alive(inst) => ~exists(SelfUI, inst)

(***************************************************************************)
(* Claims about containers and windows                                     *)
(***************************************************************************)
\* C8: a clear empties its container, whatever it held: a layout that has
\* been cleared has no child, a menu no item, a scroll list no item (and
\* the object variant an empty shadow sequence).
C8_ClearEmpties ==
    /\ (lastOp.op = "MelLayout.clear" /\ exists(SelfUI, lastOp.arg))
           => /\ ~lastOp.raised
              /\ HostChildArray(hostUI, objs[lastOp.arg].name) = <<>>
    /\ (lastOp.op \in {"_MelBaseMenu.clear", "MelPopupMenu.clear"}
            /\ exists(SelfUI, lastOp.arg))
           => /\ ~lastOp.raised
              /\ HostItemArray(hostUI, objs[lastOp.arg].name) = <<>>
    /\ lastOp.op = "clear"
           => /\ hostItems = <<>>
              /\ isObj => _items = <<>>

\* the form has been cleared of three children (the option menu and two
\* more), each rehydrated on the way
C8_Witness ==
    /\ lastOp.op = "MelLayout.clear"
    /\ exists(SelfUI, lastOp.arg)
    /\ Len(objs) = Len(Scaffold.objs) + 3

WindowsNamed(ui) == { i \in 1..Len(ui) : ui[i].name = WINDOW_NAME }

\* C10: the host holds at most one window named WINDOW_NAME; a construction
\* destroys the window of that name there was and leaves exactly one, the
\* new one; Close() leaves none, and changes nothing when there is none.
C10_WindowSingleton ==
    [][ /\ Cardinality(WindowsNamed(hostUI')) <= 1
        /\ lastOp'.op = "BaseMelWindow"
               => /\ ~lastOp'.raised
                  /\ Cardinality(WindowsNamed(hostUI')) = 1
                  /\ \A i \in WindowsNamed(hostUI') : hostUI'[i].serial > serial
                  /\ \A i \in 1..Len(hostUI'), j \in WindowsNamed(hostUI) :
                         hostUI'[i].serial # hostUI[j].serial
        /\ lastOp'.op = "Close"
               => /\ ~lastOp'.raised
                  /\ WindowsNamed(hostUI') = {}
                  /\ WindowsNamed(hostUI) = {} => hostUI' = hostUI ]_vars

\* a second window has been constructed over the first
C10_Witness ==
    /\ lastOp.op = "BaseMelWindow"
    /\ \E i \in WindowsNamed(hostUI) : hostUI[i].serial >= 3

(***************************************************************************)
(* Claims about event dispatch                                             *)
(***************************************************************************)
\* the object a dispatch from object start invokes the handler of: the
\* nearest, from start up to the window, whose attribute is callable
Handlers(start) ==
    LET having == { i \in start..Len(chain) : chain[i] = "callable" }
    IN IF having = {} THEN <<>>
       ELSE << CHOOSE i \in having : \A j \in having : i <= j >>

DispatchStart == IF lastOp.op = "sendEvent" THEN lastOp.arg + 1 ELSE lastOp.arg

\* C11: processEvent on a widget under wrapper widgets under a window ends,
\* and has then invoked exactly one handler, that of the widget if it has a
\* callable attribute of that name, else that of the nearest ancestor that
\* has one, and none if no object up to the window has one; sendEvent does
\* the same from the widget's parent.
C11_DispatchNearestHandler ==
    /\ []((at = 0 /\ lastOp.op \in {"processEvent", "sendEvent"})
              => calls = Handlers(DispatchStart))
    /\ [](Len(calls) <= 1)
    /\ (at # 0) ~> (at = 0)

\* a processEvent on the deepest widget has been forwarded twice and has
\* invoked the handler of the widget's grandparent
C11_Witness ==
    /\ lastOp.op = "processEvent"
    /\ lastOp.arg = 1
    /\ at = 0
    /\ Len(chain) >= 4
    /\ chain[2] = "attribute"
    /\ calls = <<3>>

(***************************************************************************)
(* Claims about construction                                               *)
(***************************************************************************)
\* C12: a construction of a wrapper widget of any class that the host's
\* creation command fails ends with a MelUIError that carries the command
\* and the proposed name, gives no wrapper object and leaves the instance
\* registry as it was.
C12_CreationFailureTyped ==
    [][ (lastOp'.op = "New" /\ lastOp'.raised)
            => /\ error'.type = "MelUIError"
               /\ error'.cmd = WIDGET_CMD(lastOp'.arg)
               /\ objs' = objs
               /\ _INSTANCE_LIST' = _INSTANCE_LIST ]_vars

\* no registered wrapper subclass declares the command of the type the host
\* reports for name (or the type stands for no command)
NoWrapperFor(ui, name) ==
    \A subCls \in GetSubclasses :
        WIDGET_CMD(subCls) # CommandOfType(objectTypeUI(ui, name))

\* C13 as stated: FromStr of the name of a widget whose type has no wrapper
\* subclass returns an instance of BaseMelWidget, whatever class it was
\* invoked on; and FromStr creates nothing in the host.
C13_FallbackIsBaseClass ==
    [][ (lastOp'.op = "FromStr" /\ HostExists(hostUI, lastOp'.arg.theStr))
            => /\ hostUI' = hostUI
               /\ serial' = serial
               /\ NoWrapperFor(hostUI, lastOp'.arg.theStr)
                      => objs'[Len(objs')].cls = "BaseMelWidget" ]_vars

\* C13 amended: FromStr of the name of a widget whose type has no wrapper
\* subclass returns an instance of the class it was invoked on (BaseMelWidget
\* when invoked on BaseMelWidget); and FromStr creates nothing in the host.
C13_FallbackIsInvokedClass ==
    [][ (lastOp'.op = "FromStr" /\ HostExists(hostUI, lastOp'.arg.theStr))
            => /\ hostUI' = hostUI
               /\ serial' = serial
               /\ NoWrapperFor(hostUI, lastOp'.arg.theStr)
                      => objs'[Len(objs')].cls = lastOp'.arg.cls ]_vars

\* MelLabel.FromStr of a separator's name has given a MelLabel
C13_Witness ==
    /\ lastOp.op = "FromStr"
    /\ lastOp.arg.cls = "MelLabel"
    /\ objectTypeUI(hostUI, lastOp.arg.theStr) = "separator"
    /\ NoWrapperFor(hostUI, lastOp.arg.theStr)
    /\ Rehydrated.cls = "MelLabel"

(***************************************************************************)
(* Claims about the pane layout                                            *)
(***************************************************************************)
\* C14: the pane operations convert their 0-based index once: on host pane
\* idx + 1, setPaneWidth(idx, w) changes the width to w and nothing else,
\* setPaneHeight(idx, h) the height to h and nothing else, setPaneSize(idx,
\* size) sets the size, getPaneSize(idx) returns the size; no other pane
\* changes.
C14_PaneIndexConvertedOnce ==
    [][ LET idx == lastOp'.arg.idx
            val == lastOp'.arg.val
        IN /\ lastOp'.op = "setPaneWidth"
                  => /\ ~lastOp'.raised
                     /\ hostPanes' = [hostPanes EXCEPT ![idx + 1] = <<val, @[2]>>]
           /\ lastOp'.op = "setPaneHeight"
                  => /\ ~lastOp'.raised
                     /\ hostPanes' = [hostPanes EXCEPT ![idx + 1] = <<@[1], val>>]
           /\ lastOp'.op = "setPaneSize"
                  => /\ ~lastOp'.raised
                     /\ hostPanes' = [hostPanes EXCEPT ![idx + 1] = val]
           /\ lastOp'.op = "getPaneSize"
                  => /\ ~lastOp'.raised
                     /\ lastOp'.arg.ret = hostPanes[idx + 1]
                     /\ hostPanes' = hostPanes ]_vars

====
